---- MODULE Spec2Model ----
(***************************************************************************)
(* Model of the FTX websocket session `Ws` (src/src/ws/mod.rs): the        *)
(* tracked channel list, the pending-event buffer, the keepalive interval  *)
(* and the subscribe / unsubscribe / unsubscribe_all / next calls of one   *)
(* single-owner caller, against a transport that delivers inbound items.   *)
(*                                                                         *)
(* One action is one run of the caller from a suspension point to the     *)
(* next: a call's synchronous prologue up to its first await, or the       *)
(* completion of one branch of the select! in next_response together with  *)
(* everything the caller does with the result before it suspends again.    *)
(***************************************************************************)
EXTENDS Integers, Sequences, FiniteSets, TLC

VARIABLES
    channels,   \* Ws.channels: Vec<Channel>
    buf,        \* Ws.buf: VecDeque<Data>
    conn,       \* Ws.stream: "open" | "broken" | "ended"
    deadline,   \* Ws.ping_timer: instant of the interval's next tick
    now,        \* the clock, in seconds since the session was built
    pc,         \* where the caller is suspended: "idle" | "wait" | "next"
    op,         \* the API call in progress or last made
    args,       \* its `channels` argument
    todo,       \* subscribe_or_unsubscribe: channels not yet confirmed
    tries,      \* subscribe_or_unsubscribe: responses examined by the
                \* current (or the call's last) confirmation wait
    response,   \* next_response: the last inbound item taken off the stream
    result,     \* what the last call returned
    errChannel, \* the channel named by a NotSubscribedToThisChannel error
    sent,       \* the commands sent on the stream since the last call
                \* began (at first: by connect), in order
    returned,   \* every event next() has returned, in order
    nextId,     \* transport: sequence number of the next event it delivers
    calls,      \* number of API calls begun
    confirmed   \* channels the server has confirmed and not since released

vars == <<channels, buf, conn, deadline, now, pc, op, args, todo, tries,
          response, result, errChannel, sent, returned, nextId, calls,
          confirmed>>

(***************************************************************************)
(* Bounds of the model.                                                    *)
(***************************************************************************)
MaxCalls == 2

MaxArgs == 2

MaxEvents == 2

MaxTrades == 2

MaxTime == 15

MaxLag == 2

MaxBatch == 3

MaxBatchEvents == 3

(***************************************************************************)
(* Program constants.                                                      *)
(***************************************************************************)
PingPeriod == 15

ConfirmationLimit == 100

(***************************************************************************)
(* Channels and their wire names.                                          *)
(***************************************************************************)
Trades(symbol) == [variant |-> "Trades", symbol |-> symbol]

Fills == [variant |-> "Fills", symbol |-> ""]

NoChannel == [variant |-> "None", symbol |-> ""]

ChannelUniverse == {Trades("BTC-PERP"), Fills}

WireChannel(channel) ==
    CASE channel.variant = "Orderbook" -> "orderbook"
      [] channel.variant = "Trades" -> "trades"
      [] channel.variant = "Ticker" -> "ticker"
      [] channel.variant = "Fills" -> "fills"

WireMarket(channel) ==
    IF channel.variant = "Fills" THEN "" ELSE channel.symbol

Command(o, channel) ==
    [op |-> o, channel |-> WireChannel(channel), market |-> WireMarket(channel)]

LoginCommand == [op |-> "login", channel |-> "", market |-> ""]

PingCommand == [op |-> "ping", channel |-> "", market |-> ""]

RECURSIVE SeqsUpTo(_, _)
SeqsUpTo(S, n) ==
    IF n = 0 THEN {<<>>}
    ELSE LET shorter == SeqsUpTo(S, n - 1)
         IN  shorter \cup {Append(s, x) : s \in shorter, x \in S}

ArgLists == SeqsUpTo(ChannelUniverse, MaxArgs)

Range(s) == {s[i] : i \in 1..Len(s)}

Contains(s, x) == \E i \in 1..Len(s) : s[i] = x

(***************************************************************************)
(* Inbound items.  The transport yields text frames (a decodable Response  *)
(* or text that does not decode), other frames, a receive error, or the    *)
(* end of the stream.  A Response has a type tag and an optional payload;  *)
(* the payload of an update is a trade list, one orderbook record or one   *)
(* fill record.  Records are identified by the sequence number the         *)
(* transport gives them, in delivery order.                                *)
(***************************************************************************)
NoData == [shape |-> "None", items |-> <<>>]

Response(type, data) ==
    [frame |-> "text", type |-> type, data |-> data, channel |-> NoChannel]

Frame(kind) ==
    [frame |-> kind, type |-> "none", data |-> NoData, channel |-> NoChannel]

NoResponse == Frame("none")

ControlTypes == {"subscribed", "unsubscribed", "pong", "error"}

IdsFrom(first, n) == [i \in 1..n |-> first + i - 1]

\* The payloads whose records are numbered from `nid`: trade lists of up to
\* `most` trades, one orderbook record, one fill record; none numbered
\* beyond `last`.
Payloads(nid, most, last) ==
    {[shape |-> "Trades", items |-> IdsFrom(nid, n)] :
        n \in {k \in 0..most : nid + k - 1 <= last}}
    \cup {[shape |-> s, items |-> <<nid>>] :
            s \in {x \in {"OrderbookData", "Fill"} : nid <= last}}

Updates(nid) ==
    {Response("update", d) : d \in Payloads(nid, MaxTrades, MaxEvents)}

BatchUpdates(nid) ==
    {Response("update", d) : d \in Payloads(nid, MaxBatch, MaxBatchEvents)}

Controls == {Response(t, NoData) : t \in ControlTypes}

\* An acknowledgment that names the channel it answers.  The code never
\* reads the name; it is NoChannel wherever it is left out.
Ack(type, channel) == [Response(type, NoData) EXCEPT !.channel = channel]

Acks == {Ack(t, c) : t \in {"subscribed", "unsubscribed"},
                     c \in ChannelUniverse}

Event(kind, id) == [kind |-> kind, id |-> id]

(***************************************************************************)
(* Ws::handle_response: push the contents of a response on the buffer.     *)
(***************************************************************************)
RECURSIVE PushTrades(_, _)
PushTrades(b, trades) ==
    IF trades = <<>> THEN b
    ELSE PushTrades(Append(b, Event("Trade", Head(trades))), Tail(trades))

\* A variant that buffers only the first trade of a list.
handle_response_first(b, r) ==
    IF r.data.shape = "None" \/ r.data.items = <<>> THEN b
    ELSE CASE r.data.shape = "Trades" ->
                Append(b, Event("Trade", r.data.items[1]))
           [] r.data.shape = "OrderbookData" ->
                Append(b, Event("OrderbookData", r.data.items[1]))
           [] r.data.shape = "Fill" ->
                Append(b, Event("Fill", r.data.items[1]))

handle_response(b, r) ==
    IF r.data.shape = "None" THEN b
    ELSE CASE r.data.shape = "Trades" -> PushTrades(b, r.data.items)
           [] r.data.shape = "OrderbookData" ->
                Append(b, Event("OrderbookData", r.data.items[1]))
           [] r.data.shape = "Fill" ->
                Append(b, Event("Fill", r.data.items[1]))

(***************************************************************************)
(* Pieces of subscribe, unsubscribe and unsubscribe_all.                    *)
(***************************************************************************)
\* A variant that keeps the list free of repetitions: a channel already
\* tracked is not pushed again.
RECURSIVE PushAllNew(_, _)
PushAllNew(chs, cs) ==
    IF cs = <<>> THEN chs
    ELSE IF Contains(chs, Head(cs)) THEN PushAllNew(chs, Tail(cs))
    ELSE PushAllNew(Append(chs, Head(cs)), Tail(cs))

\* subscribe, lines 98-100: push every requested channel.
RECURSIVE PushAll(_, _)
PushAll(chs, cs) ==
    IF cs = <<>> THEN chs ELSE PushAll(Append(chs, Head(cs)), Tail(cs))

\* unsubscribe, lines 110-114: the first requested channel that is not tracked.
\* A variant that validates only the first requested channel.
FirstMissingHead(chs, cs) ==
    IF cs # <<>> /\ ~Contains(chs, Head(cs)) THEN Head(cs) ELSE NoChannel

RECURSIVE FirstMissing(_, _)
FirstMissing(chs, cs) ==
    IF cs = <<>> THEN NoChannel
    ELSE IF ~Contains(chs, Head(cs)) THEN Head(cs)
    ELSE FirstMissing(chs, Tail(cs))

\* unsubscribe, line 120: channels.retain(|c| !cs.contains(c)).
RECURSIVE Retain(_, _)
Retain(chs, cs) ==
    IF chs = <<>> THEN <<>>
    ELSE IF Contains(cs, Head(chs)) THEN Retain(Tail(chs), cs)
    ELSE <<Head(chs)>> \o Retain(Tail(chs), cs)

\* unsubscribe_all, line 129: channels.clear().
Clear(chs) == <<>>

\* What a call does to the channel list once subscribe_or_unsubscribe
\* has returned Ok: nothing (subscribe), retain (unsubscribe), retain and
\* then clear (unsubscribe_all).
AfterConfirmed(o, cs, chs) ==
    CASE o = "subscribe" -> chs
      [] o = "unsubscribe" -> Retain(chs, cs)
      [] o = "unsubscribe_all" -> Clear(Retain(chs, cs))

\* A variant that rolls a failed subscribe back.
AfterFailedRollback(o, cs, chs) ==
    IF o = "subscribe" THEN Retain(chs, cs) ELSE chs

\* A variant in which a failed unsubscribe has removed its channels.
AfterFailedEager(o, cs, chs) ==
    IF o = "unsubscribe" THEN Retain(chs, cs) ELSE chs

\* A variant in which unsubscribe_all clears the list on failure too.
AfterFailedCleared(o, cs, chs) ==
    IF o = "unsubscribe_all" THEN Clear(chs) ELSE chs

\* What a call does to the channel list when subscribe_or_unsubscribe
\* returns an error: the `?` returns at once.
AfterFailed(o, cs, chs) == chs

\* subscribe_or_unsubscribe, lines 139-143.
WireOp(o) == IF o = "subscribe" THEN "subscribe" ELSE "unsubscribe"

\* A variant without the guards: either acknowledgment ends either wait.
IsConfirmationAny(type, subscribe) ==
    type \in {"subscribed", "unsubscribed"}

\* A variant with the guards of the two arms exchanged.
IsConfirmationSwapped(type, subscribe) ==
    \/ type = "subscribed" /\ ~subscribe
    \/ type = "unsubscribed" /\ subscribe

\* subscribe_or_unsubscribe, lines 167-181: the match arms that end a wait.
IsConfirmation(type, subscribe) ==
    \/ type = "subscribed" /\ subscribe
    \/ type = "unsubscribed" /\ ~subscribe

\* tokio Interval::tick: ready once the deadline is reached.
TickReady(t, d) == d <= t

\* tokio Interval, MissedTickBehavior::Burst: the next deadline.
NextDeadline(d) == d + PingPeriod

\* A send on the stream succeeds or fails; on a dead stream it fails.
SendOutcomes(c) == IF c = "open" THEN {TRUE, FALSE} ELSE {FALSE}

(***************************************************************************)
(* The session after connect_with_endpoint has returned Ok: the login      *)
(* command is sent, the channel list and the buffer are empty, and the     *)
(* interval's first tick is due at once.                                   *)
(***************************************************************************)
Init ==
    /\ channels = <<>>
    /\ buf = <<>>
    /\ conn = "open"
    /\ deadline = 0
    /\ now = 0
    /\ pc = "idle"
    /\ op = "none"
    /\ args = <<>>
    /\ todo = <<>>
    /\ tries = 0
    /\ response = NoResponse
    /\ result = "None"
    /\ errChannel = NoChannel
    /\ sent = <<LoginCommand>>
    /\ returned = <<>>
    /\ nextId = 1
    /\ calls = 0
    /\ confirmed = {}

\* The caller begins call `o` with argument `cs`.
Begin(o, cs) ==
    /\ pc = "idle"
    /\ calls < MaxCalls
    /\ calls' = calls + 1
    /\ op' = o
    /\ args' = cs
    /\ response' = NoResponse

\* The call in progress returns `res`.
Finish(res) ==
    /\ pc' = "idle"
    /\ result' = res
    /\ todo' = <<>>

\* A failed send or receive leaves the stream dead.
Broken(c) == IF c = "open" THEN "broken" ELSE c

\* The commands for the channels of `cs`, in order.
RECURSIVE CommandsFor(_, _)
CommandsFor(o, cs) ==
    IF cs = <<>> THEN <<>>
    ELSE <<Command(o, Head(cs))>> \o CommandsFor(o, Tail(cs))

\* A variant that sends the commands for all the channels left before it
\* waits for the first confirmation.
ProceedPipelined(o, cs, rest, chs, log, k) ==
    IF rest = <<>>
    THEN /\ channels' = AfterConfirmed(o, cs, chs)
         /\ Finish("Ok")
         /\ sent' = log
         /\ tries' = k
         /\ UNCHANGED conn
    ELSE \E ok \in SendOutcomes(conn) :
            IF ok
            THEN /\ sent' = IF Contains(log, Command(WireOp(o), Head(rest)))
                            THEN log
                            ELSE log \o CommandsFor(WireOp(o), rest)
                 /\ channels' = chs
                 /\ pc' = "wait"
                 /\ result' = "Pending"
                 /\ todo' = rest
                 /\ tries' = 0
                 /\ UNCHANGED conn
            ELSE /\ conn' = Broken(conn)
                 /\ channels' = AfterFailed(o, cs, chs)
                 /\ Finish("ConnectionError")
                 /\ sent' = log
                 /\ tries' = k

(***************************************************************************)
(* subscribe_or_unsubscribe, the head of the 'channels loop: with `rest`   *)
(* still to do for call `o` over `cs`, and `chs` the channel list so far.  *)
(* No channel left: the call returns Ok.  Otherwise the command for the    *)
(* first of `rest` is sent and the confirmation wait begins, or the send   *)
(* fails and the call returns the error.                                   *)
(***************************************************************************)
Proceed(o, cs, rest, chs, log, k) ==
    IF rest = <<>>
    THEN /\ channels' = AfterConfirmed(o, cs, chs)
         /\ Finish("Ok")
         /\ sent' = log
         /\ tries' = k
         /\ UNCHANGED conn
    ELSE \E ok \in SendOutcomes(conn) :
            IF ok
            THEN /\ sent' = Append(log, Command(WireOp(o), Head(rest)))
                 /\ channels' = chs
                 /\ pc' = "wait"
                 /\ result' = "Pending"
                 /\ todo' = rest
                 /\ tries' = 0
                 /\ UNCHANGED conn
            ELSE /\ conn' = Broken(conn)
                 /\ channels' = AfterFailed(o, cs, chs)
                 /\ Finish("ConnectionError")
                 /\ sent' = log
                 /\ tries' = k

\* Ws::subscribe.
CallSubscribe(cs) ==
    /\ Begin("subscribe", cs)
    /\ errChannel' = NoChannel
    /\ Proceed("subscribe", cs, cs, PushAll(channels, cs), <<>>, 0)
    /\ UNCHANGED <<buf, deadline, now, returned, nextId, confirmed>>

\* Ws::unsubscribe over `cs`, on behalf of call `o`.
Unsubscribe(o, cs) ==
    IF FirstMissing(channels, cs) # NoChannel
    THEN /\ errChannel' = FirstMissing(channels, cs)
         /\ Finish("NotSubscribedToThisChannel")
         /\ sent' = <<>>
         /\ tries' = 0
         /\ UNCHANGED <<channels, conn>>
    ELSE /\ errChannel' = NoChannel
         /\ Proceed(o, cs, cs, channels, <<>>, 0)

CallUnsubscribe(cs) ==
    /\ Begin("unsubscribe", cs)
    /\ Unsubscribe("unsubscribe", cs)
    /\ UNCHANGED <<buf, deadline, now, returned, nextId, confirmed>>

\* Ws::unsubscribe_all: unsubscribe(self.channels.clone()), then clear.
CallUnsubscribeAll ==
    /\ Begin("unsubscribe_all", channels)
    /\ Unsubscribe("unsubscribe_all", channels)
    /\ UNCHANGED <<buf, deadline, now, returned, nextId, confirmed>>

(***************************************************************************)
(* Ws::next, one turn of its loop on buffer `b`: pop and return the front  *)
(* event, or wait in next_response.                                        *)
(***************************************************************************)
\* A variant that pops the back of the buffer.
PopBackOrWait(b) ==
    IF b # <<>>
    THEN /\ returned' = Append(returned, b[Len(b)])
         /\ buf' = SubSeq(b, 1, Len(b) - 1)
         /\ Finish("Some")
    ELSE /\ buf' = b
         /\ pc' = "next"
         /\ result' = "Pending"
         /\ UNCHANGED <<returned, todo>>

PopOrWait(b) ==
    IF b # <<>>
    THEN /\ returned' = Append(returned, Head(b))
         /\ buf' = Tail(b)
         /\ Finish("Some")
    ELSE /\ buf' = b
         /\ pc' = "next"
         /\ result' = "Pending"
         /\ UNCHANGED <<returned, todo>>

\* A variant that polls the stream before it looks at the buffer.
CallNextPolling ==
    /\ Begin("next", <<>>)
    /\ errChannel' = NoChannel
    /\ pc' = "next"
    /\ result' = "Pending"
    /\ sent' = <<>>
    /\ tries' = 0
    /\ UNCHANGED <<channels, buf, conn, deadline, now, returned, todo, nextId,
                   confirmed>>

CallNext ==
    /\ Begin("next", <<>>)
    /\ errChannel' = NoChannel
    /\ PopOrWait(buf)
    /\ sent' = <<>>
    /\ tries' = 0
    /\ UNCHANGED <<channels, conn, deadline, now, nextId, confirmed>>

(***************************************************************************)
(* next_response, the timer branch of the select!: the interval ticks and  *)
(* a ping is sent; a failed send ends the call in progress.                *)
(***************************************************************************)
InNextResponse == pc \in {"wait", "next"}

\* A variant of a select! that polls its branches in order, the message
\* branch first: the timer branch runs only when the stream has nothing.
PingTickBiased ==
    /\ InNextResponse
    /\ conn # "open"
    /\ TickReady(now, deadline)
    /\ deadline' = NextDeadline(deadline)
    /\ \E ok \in SendOutcomes(conn) :
          IF ok
          THEN /\ sent' = Append(sent, PingCommand)
               /\ UNCHANGED <<channels, conn, pc, result, todo>>
          ELSE /\ conn' = Broken(conn)
               /\ channels' = AfterFailed(op, args, channels)
               /\ Finish("ConnectionError")
               /\ UNCHANGED sent
    /\ UNCHANGED <<buf, now, op, args, tries, response, errChannel,
                   returned, nextId, calls, confirmed>>

PingTick ==
    /\ InNextResponse
    /\ TickReady(now, deadline)
    /\ deadline' = NextDeadline(deadline)
    /\ \E ok \in SendOutcomes(conn) :
          IF ok
          THEN /\ sent' = Append(sent, PingCommand)
               /\ UNCHANGED <<channels, conn, pc, result, todo>>
          ELSE /\ conn' = Broken(conn)
               /\ channels' = AfterFailed(op, args, channels)
               /\ Finish("ConnectionError")
               /\ UNCHANGED sent
    /\ UNCHANGED <<buf, now, op, args, tries, response, errChannel,
                   returned, nextId, calls, confirmed>>

(***************************************************************************)
(* next_response, the message branch of the select!.                       *)
(***************************************************************************)
\* stream.next() yields None: the pattern Some(msg) fails, the branch is
\* disabled and the select! goes on waiting for the timer.
RecvEnd ==
    /\ InNextResponse
    /\ conn = "open"
    /\ conn' = "ended"
    /\ response' = Frame("end")
    /\ UNCHANGED <<channels, buf, deadline, now, pc, op, args, todo, tries,
                   result, errChannel, sent, returned, nextId, calls,
                   confirmed>>

\* stream.next() yields Some(Err(e)): `msg?` returns the error.
RecvError ==
    /\ InNextResponse
    /\ conn \in {"open", "broken"}
    /\ conn' = "broken"
    /\ response' = Frame("err")
    /\ channels' = AfterFailed(op, args, channels)
    /\ Finish("ConnectionError")
    /\ UNCHANGED <<buf, deadline, now, op, args, tries, errChannel, sent,
                   returned, nextId, calls, confirmed>>

\* A frame that is not Message::Text: the loop goes round.
RecvNonText ==
    /\ InNextResponse
    /\ conn = "open"
    /\ response' = Frame("binary")
    /\ UNCHANGED <<channels, buf, conn, deadline, now, pc, op, args, todo,
                   tries, result, errChannel, sent, returned, nextId, calls,
                   confirmed>>

\* A variant that skips text it cannot decode, as it skips other frames.
RecvUndecodableSkipped ==
    /\ InNextResponse
    /\ conn = "open"
    /\ response' = Frame("badtext")
    /\ UNCHANGED <<channels, buf, conn, deadline, now, pc, op, args, todo,
                   tries, result, errChannel, sent, returned, nextId, calls,
                   confirmed>>

\* Text that serde_json cannot decode as a Response: `?` returns the error.
RecvUndecodable ==
    /\ InNextResponse
    /\ conn = "open"
    /\ response' = Frame("badtext")
    /\ channels' = AfterFailed(op, args, channels)
    /\ Finish("DecodeError")
    /\ UNCHANGED <<buf, conn, deadline, now, op, args, tries, errChannel,
                   sent, returned, nextId, calls, confirmed>>

\* The responses next_response returns to its caller.
Returnable(nid) == {r \in Controls : r.type # "pong"} \cup Updates(nid)

\* The transport's sequence number after it has delivered `r`.
Delivered(nid, r) == nid + Len(r.data.items)

\* Ws::next, lines 248-251, then the loop's next turn.
RecvInNext(r) ==
    /\ pc = "next"
    /\ conn = "open"
    /\ response' = r
    /\ nextId' = Delivered(nextId, r)
    /\ PopOrWait(handle_response(buf, r))
    /\ UNCHANGED <<channels, conn, deadline, now, op, args, tries,
                   errChannel, sent, calls, confirmed>>

\* subscribe_or_unsubscribe, lines 168-181: the awaited confirmation.
RecvConfirmation(r) ==
    /\ pc = "wait"
    /\ conn = "open"
    /\ IsConfirmation(r.type, op = "subscribe")
    /\ response' = r
    /\ nextId' = Delivered(nextId, r)
    /\ Proceed(op, args, Tail(todo), channels, sent, tries)
    /\ UNCHANGED <<buf, deadline, now, op, args, errChannel, returned,
                   calls>>

\* The record of what the server has confirmed: a `subscribed` that ends
\* the wait for a channel confirms it, an `unsubscribed` releases it.
Acknowledged(set, o, channel) ==
    IF o = "subscribe" THEN set \cup {channel} ELSE set \ {channel}

\* The confirmation step, with the record kept or left alone.
Confirm(r, keep) ==
    /\ RecvConfirmation(r)
    /\ confirmed' = IF keep THEN Acknowledged(confirmed, op, Head(todo))
                    ELSE confirmed

\* A variant whose loop runs over 0..=100: the wait goes on after the
\* hundredth response.
RecvInWaitInclusive(r) ==
    /\ pc = "wait"
    /\ conn = "open"
    /\ ~IsConfirmation(r.type, op = "subscribe")
    /\ response' = r
    /\ nextId' = Delivered(nextId, r)
    /\ buf' = handle_response(buf, r)
    /\ tries' = tries + 1
    /\ IF tries + 1 > ConfirmationLimit
       THEN /\ channels' = AfterFailed(op, args, channels)
            /\ Finish("MissingSubscriptionConfirmation")
       ELSE UNCHANGED <<channels, pc, result, todo>>
    /\ UNCHANGED <<conn, deadline, now, op, args, errChannel, sent,
                   returned, calls, confirmed>>

\* subscribe_or_unsubscribe, lines 182-189: any other response.
RecvInWait(r) ==
    /\ pc = "wait"
    /\ conn = "open"
    /\ ~IsConfirmation(r.type, op = "subscribe")
    /\ response' = r
    /\ nextId' = Delivered(nextId, r)
    /\ buf' = handle_response(buf, r)
    /\ tries' = tries + 1
    /\ IF tries + 1 >= ConfirmationLimit
       THEN /\ channels' = AfterFailed(op, args, channels)
            /\ Finish("MissingSubscriptionConfirmation")
       ELSE UNCHANGED <<channels, pc, result, todo>>
    /\ UNCHANGED <<conn, deadline, now, op, args, errChannel, sent,
                   returned, calls, confirmed>>

\* A variant without the `continue`: the pong goes back to the caller like
\* any other response.
RecvPongReturned ==
    \/ RecvInNext(Response("pong", NoData))
    \/ RecvInWait(Response("pong", NoData))

\* A Response of type Pong: `continue`.
RecvPong ==
    /\ InNextResponse
    /\ conn = "open"
    /\ response' = Response("pong", NoData)
    /\ UNCHANGED <<channels, buf, conn, deadline, now, pc, op, args, todo,
                   tries, result, errChannel, sent, returned, nextId, calls,
                   confirmed>>

\* Time passes.
TimeSteps == {PingPeriod}

Advance ==
    /\ \E d \in TimeSteps : now + d <= MaxTime /\ now' = now + d
    /\ UNCHANGED <<channels, buf, conn, deadline, pc, op, args, todo, tries,
                   response, result, errChannel, sent, returned, nextId,
                   calls, confirmed>>

(***************************************************************************)
(* Spec: the whole environment, with a server that answers a command       *)
(* within MaxLag unrelated responses (or a stream that fails first).       *)
(***************************************************************************)
Next ==
    \/ \E cs \in ArgLists : CallSubscribe(cs)
    \/ \E cs \in ArgLists : CallUnsubscribe(cs)
    \/ CallUnsubscribeAll
    \/ CallNext
    \/ PingTick
    \/ RecvEnd
    \/ RecvError
    \/ RecvNonText
    \/ RecvUndecodable
    \/ RecvPong
    \/ \E r \in Returnable(nextId) : RecvInNext(r)
    \/ \E r \in Returnable(nextId) : Confirm(r, TRUE)
    \/ \E r \in Returnable(nextId) : tries < MaxLag /\ RecvInWait(r)
    \/ Advance

Spec == Init /\ [][Next]_vars

(***************************************************************************)
(* SpecFlood: a server that may never answer, so that a confirmation wait  *)
(* runs to its limit.  The traffic is control responses and trade updates  *)
(* on a stream that may fail; the run is short against the ping period.    *)
(***************************************************************************)
FloodResponses(nid) ==
    {r \in Returnable(nid) : r.data.shape \in {"None", "Trades"}}

NextFlood ==
    \/ \E cs \in ArgLists : CallSubscribe(cs)
    \/ \E cs \in ArgLists : CallUnsubscribe(cs)
    \/ CallUnsubscribeAll
    \/ CallNext
    \/ PingTick
    \/ RecvError
    \/ RecvUndecodable
    \/ \E r \in FloodResponses(nextId) : RecvInNext(r)
    \/ \E r \in FloodResponses(nextId) : Confirm(r, FALSE)
    \/ \E r \in FloodResponses(nextId) : RecvInWait(r)

SpecFlood == Init /\ [][NextFlood]_vars

(***************************************************************************)
(* SpecBatch: handle_response on larger batches.  Subscribe and next calls *)
(* whose responses carry trade lists of up to MaxBatch trades.             *)
(***************************************************************************)
BatchResponses(nid) ==
    {r \in Controls : r.type # "pong"} \cup BatchUpdates(nid)

NextBatch ==
    \/ \E cs \in ArgLists : CallSubscribe(cs)
    \/ CallNext
    \/ \E r \in BatchResponses(nextId) : RecvInNext(r)
    \/ \E r \in BatchResponses(nextId) : Confirm(r, FALSE)
    \/ \E r \in BatchResponses(nextId) : tries < MaxLag /\ RecvInWait(r)

SpecBatch == Init /\ [][NextBatch]_vars

(***************************************************************************)
(* SpecStall: a server that never sends data.  Subscribe and unsubscribe   *)
(* calls whose waits receive pongs, frames that are not text and control   *)
(* responses, up to the limit of the wait.                                 *)
(***************************************************************************)
StallResponses == {r \in Controls : r.type # "pong"}

NextStall ==
    \/ \E cs \in ArgLists : CallSubscribe(cs)
    \/ \E cs \in ArgLists : CallUnsubscribe(cs)
    \/ RecvPong
    \/ RecvNonText
    \/ \E r \in StallResponses : Confirm(r, FALSE)
    \/ \E r \in StallResponses : RecvInWait(r)

SpecStall == Init /\ [][NextStall]_vars

(***************************************************************************)
(* SpecAck: a server whose acknowledgments name their channel, and may     *)
(* name another channel than the one the call is waiting for, or come      *)
(* late, after the call they answer has given up.                          *)
(***************************************************************************)
AckResponses == Acks \cup {Response("error", NoData)}

NextAck ==
    \/ \E cs \in ArgLists : CallSubscribe(cs)
    \/ \E cs \in ArgLists : CallUnsubscribe(cs)
    \/ \E r \in AckResponses : Confirm(r, FALSE)
    \/ \E r \in AckResponses : RecvInWait(r)

SpecAck == Init /\ [][NextAck]_vars

(***************************************************************************)
(* SpecLive: a stream that always has a message ready.  The select! of     *)
(* next_response picks among its ready branches at random, so a timer      *)
(* branch that stays ready is taken in the end: weak fairness of PingTick. *)
(***************************************************************************)
NextLive ==
    \/ \E cs \in ArgLists : CallSubscribe(cs)
    \/ CallNext
    \/ PingTick
    \/ RecvPong
    \/ \E r \in Returnable(nextId) : RecvInNext(r)
    \/ \E r \in Returnable(nextId) : Confirm(r, FALSE)
    \/ \E r \in Returnable(nextId) : tries < MaxLag /\ RecvInWait(r)
    \/ Advance

SpecLive == Init /\ [][NextLive]_vars /\ WF_vars(PingTick)

(***************************************************************************)
(* Vocabulary of the properties.                                           *)
(***************************************************************************)
Idle == pc = "idle"

Tracked(c) == Contains(channels, c)

\* The events a response carries, by the wire model: one Trade per trade of
\* a trade list, one event for an orderbook or a fill record, none otherwise.
Carried(r) ==
    [k \in 1..Len(r.data.items) |->
        [kind |-> CASE r.data.shape = "Trades" -> "Trade"
                    [] r.data.shape = "OrderbookData" -> "OrderbookData"
                    [] r.data.shape = "Fill" -> "Fill",
         id |-> r.data.items[k]]]

\* The events returned so far followed by the events still queued are the
\* records the transport has delivered, each once, in delivery order.
Unbroken ==
    LET all == returned \o buf
    IN  /\ Len(all) = nextId - 1
        /\ \A i \in 1..Len(all) : all[i].id = i

Pings(log) == Cardinality({i \in 1..Len(log) : log[i] = PingCommand})

(***************************************************************************)
(* C1.  Whatever calls are made, the events next() has returned are a      *)
(* prefix of the events of the delivered data-bearing messages in delivery *)
(* order, and the rest of them is the pending queue: nothing is lost,      *)
(* duplicated or reordered, whether the message was consumed inside next() *)
(* or inside a confirmation wait.                                          *)
(***************************************************************************)
C1_InOrderDelivery == Unbroken

\* next() has returned the first event of a trade list that arrived during
\* a subscribe wait; the second is at the front of the queue.
C1_Witness ==
    /\ Idle /\ op = "next" /\ result = "Some" /\ response = NoResponse
    /\ channels # <<>>
    /\ Len(returned) = 1 /\ returned[1].id = 1
    /\ Len(buf) = 1 /\ buf[1].id = 2

(***************************************************************************)
(* C2.  In a subscribe([X]) call, a `subscribed` response that arrives     *)
(* after k unrelated responses, k from 0 to 99, ends the call with Ok: X   *)
(* is tracked, and the events of the k responses are in the queue in       *)
(* order, behind what was there.                                           *)
(***************************************************************************)
C2_ConfirmedAfterUnrelated ==
    (op = "subscribe" /\ Len(args) = 1 /\ response.type = "subscribed")
        => /\ Idle
           /\ result = "Ok"
           /\ tries <= ConfirmationLimit - 1
           /\ Tracked(args[1])
           /\ Unbroken

\* subscribe([X]) has returned Ok on a confirmation that came after 99
\* unrelated responses, whose events are queued in order.
C2_Witness ==
    /\ Idle /\ op = "subscribe" /\ Len(args) = 1 /\ result = "Ok"
    /\ tries = ConfirmationLimit - 1
    /\ Tracked(args[1])
    /\ Len(buf) = MaxEvents /\ buf[1].id = 1

(***************************************************************************)
(* C3.  A subscribe wait that has examined 100 responses, none of them     *)
(* `subscribed`, fails the call with MissingSubscriptionConfirmation; the  *)
(* requested channels are still tracked and the events of the examined     *)
(* responses are still queued.                                             *)
(***************************************************************************)
C3_MissingConfirmation ==
    /\ tries >= ConfirmationLimit
          => Idle /\ result = "MissingSubscriptionConfirmation"
    /\ result = "MissingSubscriptionConfirmation"
          => /\ Idle
             /\ tries = ConfirmationLimit
             /\ op = "subscribe" =>
                   /\ \A i \in 1..Len(args) : Tracked(args[i])
                   /\ Unbroken
                   /\ Carried(response) # <<>> =>
                         /\ buf # <<>>
                         /\ buf[Len(buf)] = Carried(response)[Len(Carried(response))]

\* subscribe has failed for want of a confirmation, with the events of the
\* examined responses queued.
C3_Witness ==
    /\ Idle /\ op = "subscribe" /\ result = "MissingSubscriptionConfirmation"
    /\ tries = ConfirmationLimit
    /\ Tracked(args[1])
    /\ Len(buf) = MaxEvents

(***************************************************************************)
(* C4.  unsubscribe(cs) with a channel of cs that is not tracked returns   *)
(* NotSubscribedToThisChannel naming such a channel at once: no command    *)
(* is sent, the stream and the timer are not touched, and the channel      *)
(* list and the queue are as they were, also when other channels of cs     *)
(* are tracked.                                                            *)
(***************************************************************************)
C4_UnsubscribeGuard ==
    [][(/\ calls' = calls + 1
        /\ op' = "unsubscribe"
        /\ \E i \in 1..Len(args') : ~Tracked(args'[i]))
          => /\ pc' = "idle"
             /\ result' = "NotSubscribedToThisChannel"
             /\ errChannel' \in Range(args')
             /\ ~Tracked(errChannel')
             /\ sent' = <<>>
             /\ response' = NoResponse
             /\ UNCHANGED <<channels, buf, conn, deadline, nextId, returned>>]_vars

\* unsubscribe([X, Y]) with X tracked and Y not has failed naming Y.
C4_Witness ==
    /\ Idle /\ op = "unsubscribe" /\ result = "NotSubscribedToThisChannel"
    /\ Len(args) = 2 /\ Tracked(args[1]) /\ ~Tracked(args[2])
    /\ errChannel = args[2]
    /\ sent = <<>> /\ response = NoResponse

(***************************************************************************)
(* C5.  unsubscribe(cs) changes the channel list all or nothing: the one   *)
(* step that changes it is the return of Ok, which removes the channels    *)
(* of cs; every other step of the call, a failing return included,         *)
(* leaves the list as it was before the call.                              *)
(***************************************************************************)
C5_AllOrNothing ==
    [][(op' = "unsubscribe" /\ (pc = "wait" \/ calls' # calls))
          => IF pc' = "idle" /\ result' = "Ok"
             THEN /\ channels' = Retain(channels, args')
                  /\ args' # <<>> => response'.type = "unsubscribed"
             ELSE channels' = channels]_vars

\* unsubscribe([X, Y]) has failed waiting for Y after X was confirmed, and
\* both are still tracked.
C5_Witness ==
    /\ Idle /\ op = "unsubscribe"
    /\ result = "MissingSubscriptionConfirmation"
    /\ Len(args) = 2 /\ args[1] # args[2]
    /\ Contains(sent, Command("unsubscribe", args[2]))
    /\ Tracked(args[1]) /\ Tracked(args[2])

(***************************************************************************)
(* C6.  Every tracked channel is one the server has confirmed subscribed   *)
(* and has not since confirmed unsubscribed.                               *)
(***************************************************************************)
C6_OnlyConfirmedTracked ==
    \A i \in 1..Len(channels) : channels[i] \in confirmed

(***************************************************************************)
(* C7.  Handling a response appends the events it carries to the back of   *)
(* the queue as one block: a trade list of N trades appends N Trade        *)
(* events in list order, an orderbook or a fill record one event, a        *)
(* response without payload nothing; what was queued keeps its place.      *)
(* In next() the front of the lengthened queue is then returned.           *)
(***************************************************************************)
C7_BatchFlattening ==
    [][/\ (pc = "wait" /\ tries' = tries + 1)
             => buf' = buf \o Carried(response')
       /\ (pc = "next" /\ response' # response)
             => returned' \o buf' = (returned \o buf) \o Carried(response')]_vars

\* A list of two trades has been handled behind an event of another kind.
C7_Witness ==
    /\ pc = "wait"
    /\ response.data.shape = "Trades" /\ Len(response.data.items) = 2
    /\ Len(buf) = 3
    /\ buf[1].kind # "Trade"
    /\ buf[2] = Event("Trade", 2) /\ buf[3] = Event("Trade", 3)

(***************************************************************************)
(* C8.  Receiving a pong changes nothing but the item last received: no    *)
(* event is queued or returned, the channel list is as it was, and the     *)
(* call goes on waiting where it was, without using up a try.              *)
(***************************************************************************)
C8_PongSuppressed ==
    [][(response'.type = "pong" /\ response' # response)
          => UNCHANGED <<buf, channels, returned, pc, tries, result, todo,
                         sent, nextId, conn>>]_vars

\* next() has received a pong and is still waiting.
C8_Witness ==
    /\ pc = "next" /\ response.type = "pong"
    /\ result = "Pending" /\ buf = <<>> /\ returned = <<>>

(***************************************************************************)
(* C9.  While next() waits with an empty queue and nothing inbound, the    *)
(* only commands sent are pings, one for each 15-second period that has    *)
(* elapsed and none before the first has, and no event is queued.          *)
(***************************************************************************)
C9_OnePingPerPeriod ==
    (pc = "next" /\ response = NoResponse)
        => /\ Pings(sent) = Len(sent)
           /\ buf = <<>>
           /\ Pings(sent) <= now \div PingPeriod

(***************************************************************************)
(* C10.  As claimed: whenever unsubscribe_all() has returned, with Ok or   *)
(* with an error, the channel list is empty.                               *)
(***************************************************************************)
C10_ClearedUnconditionally ==
    (Idle /\ op = "unsubscribe_all") => channels = <<>>

(***************************************************************************)
(* C10, amended.  unsubscribe_all() unsubscribes from a snapshot of the    *)
(* channel list; the return of Ok leaves the list empty, every other step  *)
(* of the call, a failing return included, leaves it as it was; with an    *)
(* empty list the call returns Ok at once and sends nothing.               *)
(***************************************************************************)
C10_ClearedOnSuccess ==
    [][(op' = "unsubscribe_all" /\ (pc = "wait" \/ calls' # calls))
          => /\ IF pc' = "idle" /\ result' = "Ok"
                THEN channels' = <<>>
                ELSE channels' = channels
             /\ calls' # calls => args' = channels
             /\ (calls' # calls /\ channels = <<>>)
                   => pc' = "idle" /\ result' = "Ok" /\ sent' = <<>>]_vars

\* unsubscribe_all() on a tracked channel has returned Ok.
C10_Witness ==
    /\ Idle /\ op = "unsubscribe_all" /\ result = "Ok"
    /\ args # <<>> /\ sent # <<>>
    /\ channels = <<>>

(***************************************************************************)
(* C11.  As claimed: every inbound item a confirmation wait takes off the  *)
(* stream, whatever it is, uses up one of the 100 slots of the wait,       *)
(* ends the wait or ends the call; so a wait reads at most 100 items.      *)
(***************************************************************************)
C11_EveryReadCounts ==
    [][(pc = "wait" /\ response' # response)
          => \/ tries' = tries + 1 /\ tries' <= ConfirmationLimit
             \/ todo' # todo
             \/ pc' = "idle"]_vars

(***************************************************************************)
(* C11, amended.  A confirmation wait examines at most 100 responses: a    *)
(* step that stays in the wait either examines a decoded response that is  *)
(* not a pong, which uses up one slot and leaves the count below 100, or   *)
(* leaves the count alone; pongs and frames that are not text are read     *)
(* without using a slot.  The call returns at the hundredth response       *)
(* examined.                                                               *)
(***************************************************************************)
C11_BoundedExamined ==
    [][/\ (pc = "wait" /\ pc' = "wait" /\ todo' = todo)
            => IF tries' # tries
               THEN /\ tries' = tries + 1
                    /\ tries' < ConfirmationLimit
                    /\ response'.frame = "text"
                    /\ response'.type # "pong"
               ELSE \/ response' = response
                    \/ response'.type = "pong"
                    \/ response'.frame # "text"
       /\ (pc = "wait" /\ tries' = ConfirmationLimit)
            => /\ pc' = "idle"
               /\ result' = "MissingSubscriptionConfirmation"]_vars

\* A wait that has examined 99 responses has read a pong besides and is
\* still on.
C11_Witness ==
    /\ pc = "wait" /\ op = "subscribe"
    /\ tries = ConfirmationLimit - 1
    /\ response.type = "pong"

(***************************************************************************)
(* C12.  Once the stream has reported its end or a receive error to a      *)
(* running call, the call has returned a connection error: it is not       *)
(* still waiting and has not returned anything else.                       *)
(***************************************************************************)
C12_CloseEndsCall ==
    response.frame \in {"end", "err"}
        => Idle /\ result = "ConnectionError"

(***************************************************************************)
(* C13.  The wait for a channel ends successfully only on the              *)
(* acknowledgment of the command just sent: the step that passes from the  *)
(* wait for a channel to the next channel, or to the return of Ok, has     *)
(* received `subscribed` (in a subscribe) or `unsubscribed` (in an         *)
(* unsubscribe) naming that channel.                                       *)
(***************************************************************************)
C13_MatchingAckOnly ==
    [][(/\ pc = "wait"
        /\ calls' = calls
        /\ \/ pc' = "wait" /\ todo' = Tail(todo)
           \/ pc' = "idle" /\ result' = "Ok")
          => response' = Ack(IF op = "subscribe" THEN "subscribed"
                             ELSE "unsubscribed", Head(todo))]_vars

\* The commands of a log that are not pings.
Commands(log) == SelectSeq(log, LAMBDA c : c # PingCommand)

\* The commands a call `o` over `cs` has sent once it has reached its n-th
\* channel.
Issued(o, cs, n) ==
    [i \in 1..n |-> Command(IF o = "subscribe" THEN "subscribe"
                            ELSE "unsubscribe", cs[i])]

(***************************************************************************)
(* C14.  A subscribe or unsubscribe call over c1..cn does not pipeline:    *)
(* while it waits, the commands it has sent are those for c1..ci in list   *)
(* order, where c1..c(i-1) are confirmed and ci is the one awaited; a new  *)
(* command is sent only by the step that receives the confirmation         *)
(* awaited; and once it has returned, the commands it has sent are those   *)
(* for a prefix of the list, the whole list if it returned Ok.             *)
(***************************************************************************)
C14_NotPipelined ==
    [][/\ (op' \in {"subscribe", "unsubscribe", "unsubscribe_all"}
             /\ pc' = "wait")
            => /\ Len(todo') \in 1..Len(args')
               /\ todo' = SubSeq(args', Len(args') - Len(todo') + 1,
                                 Len(args'))
               /\ Commands(sent')
                     = Issued(op', args', Len(args') - Len(todo') + 1)
       /\ (op' \in {"subscribe", "unsubscribe", "unsubscribe_all"}
             /\ pc' = "idle")
            => \E n \in 0..Len(args') :
                  /\ Commands(sent') = Issued(op', args', n)
                  /\ result' = "Ok" => n = Len(args')
       /\ (pc = "wait" /\ calls' = calls
             /\ Commands(sent') # Commands(sent))
            => /\ Len(Commands(sent')) = Len(Commands(sent)) + 1
               /\ response'.type = IF op = "subscribe" THEN "subscribed"
                                   ELSE "unsubscribed"]_vars

\* subscribe([X, Y]) is waiting for Y: X is confirmed, two commands and a
\* ping between them have been sent.
C14_Witness ==
    /\ pc = "wait" /\ op = "subscribe"
    /\ Len(args) = 2 /\ args[1] # args[2]
    /\ todo = <<args[2]>>
    /\ sent = <<Command("subscribe", args[1]), PingCommand,
                Command("subscribe", args[2])>>

(***************************************************************************)
(* C15.  When no call is in progress, a subscribe command has been sent    *)
(* for every tracked channel.  Stated for the time after the session's     *)
(* first call, when the log of the call holds every command sent since     *)
(* the login: every tracked channel has its subscribe command in the log,  *)
(* so the channels behind the one a failed subscribe stopped at are not    *)
(* tracked.                                                                *)
(***************************************************************************)
C15_TrackedWasSent ==
    (Idle /\ calls = 1)
        => \A i \in 1..Len(channels) :
              Contains(sent, Command("subscribe", channels[i]))

(***************************************************************************)
(* C16.  The keepalive is not starved: whenever a call is in               *)
(* next_response with the timer due, the tick is taken (and the ping       *)
(* sent, or its send fails the call) or the call returns, though a         *)
(* message is ready at every step.  And a ping falls between messages: the *)
(* step that sends it receives nothing and queues nothing, and the step    *)
(* that receives a message queues all of its events and sends no ping.     *)
(***************************************************************************)
C16_PingNotStarved ==
    /\ (InNextResponse /\ TickReady(now, deadline))
          ~> (Idle \/ ~TickReady(now, deadline))
    /\ [][/\ Pings(sent') > Pings(sent)
                => UNCHANGED <<buf, returned, nextId, response>>
          /\ nextId' # nextId
                => /\ Pings(sent') = Pings(sent)
                   /\ returned' \o buf'
                         = (returned \o buf) \o Carried(response')]_vars

\* next() has read a response without payload and gone round its loop,
\* and the ping has been sent in the same call.
C16_Witness ==
    /\ pc = "next"
    /\ response.type = "error"
    /\ sent = <<PingCommand>>
    /\ ~TickReady(now, deadline)

(***************************************************************************)
(* C17.  Text that does not decode is not skipped: the step that takes it  *)
(* off the stream returns DecodeError from the call in progress and        *)
(* leaves the queue, the events returned, the channel list and the stream  *)
(* as they were; the call that follows starts afresh and is not failed by  *)
(* the same text.                                                          *)
(***************************************************************************)
C17_DecodeErrorReturned ==
    [][/\ (response'.frame = "badtext" /\ response' # response)
            => /\ pc \in {"wait", "next"}
               /\ pc' = "idle"
               /\ result' = "DecodeError"
               /\ UNCHANGED <<buf, returned, channels, nextId, conn, sent,
                              tries>>
       /\ (result = "DecodeError" /\ calls' # calls)
            => /\ response' = NoResponse
               /\ result' # "DecodeError"
               /\ buf # <<>> /\ op' = "next"
                     => /\ result' = "Some"
                        /\ returned' = Append(returned, Head(buf))]_vars

\* subscribe has returned DecodeError during its wait, with the events of
\* the responses before the bad text queued.
C17_Witness ==
    /\ Idle /\ op = "subscribe" /\ result = "DecodeError"
    /\ response.frame = "badtext"
    /\ tries = 1 /\ Len(buf) = 2 /\ buf[1].id = 1 /\ buf[2].id = 2

IsPrefix(a, b) == Len(a) <= Len(b) /\ SubSeq(b, 1, Len(a)) = a

(***************************************************************************)
(* C19.  next() leaves the channel list alone and sends only pings; with   *)
(* an event queued it returns the front event in its first step, without   *)
(* touching the stream or the timer.  subscribe, unsubscribe and           *)
(* unsubscribe_all return no event and only lengthen the queue at its      *)
(* back.                                                                   *)
(***************************************************************************)
C19_Frames ==
    [][/\ op' = "next"
            => /\ channels' = channels
               /\ Pings(sent') = Len(sent')
       /\ (calls' # calls /\ op' = "next" /\ buf # <<>>)
            => /\ pc' = "idle" /\ result' = "Some"
               /\ returned' = Append(returned, Head(buf))
               /\ buf' = Tail(buf)
               /\ sent' = <<>>
               /\ response' = NoResponse
               /\ UNCHANGED <<nextId, deadline, conn>>
       /\ op' \in {"subscribe", "unsubscribe", "unsubscribe_all"}
            => /\ IsPrefix(buf, buf')
               /\ returned' = returned]_vars

\* next() has returned a queued event with the timer due, and has neither
\* pinged nor read.
C19_Witness ==
    /\ Idle /\ op = "next" /\ result = "Some" /\ calls = 2
    /\ response = NoResponse /\ sent = <<>>
    /\ TickReady(now, deadline)
    /\ Len(returned) = 1 /\ Len(buf) = 1
    /\ channels # <<>>

\* A control response without payload that is not a pong.
Plain(r) ==
    /\ r.frame = "text"
    /\ r.data.shape = "None"
    /\ r.type \in {"error", "subscribed", "unsubscribed"}

\* A tag that does not confirm a wait of call `o`.
Mismatched(type, o) ==
    \/ type = "error"
    \/ type = "subscribed" /\ o # "subscribe"
    \/ type = "unsubscribed" /\ o = "subscribe"

(***************************************************************************)
(* C20.  A control response without payload that is neither a pong nor     *)
(* the confirmation awaited is not surfaced.  Received in next(), it       *)
(* changes nothing and next() goes on waiting.  Received in a              *)
(* confirmation wait, it queues nothing, changes no channel and uses up    *)
(* one slot: the wait goes on, or, if it was the hundredth, the call       *)
(* returns MissingSubscriptionConfirmation.                                *)
(***************************************************************************)
C20_ControlsNotSurfaced ==
    [][/\ (pc = "next" /\ response' # response /\ Plain(response'))
            => UNCHANGED <<pc, result, buf, channels, returned, sent, tries,
                           conn, nextId>>
       /\ (pc = "wait" /\ response' # response /\ Plain(response')
             /\ Mismatched(response'.type, op))
            => /\ UNCHANGED <<buf, channels, returned, sent, conn, nextId>>
               /\ tries' = tries + 1
               /\ IF tries' < ConfirmationLimit
                  THEN UNCHANGED <<pc, result, todo>>
                  ELSE /\ pc' = "idle"
                       /\ result' = "MissingSubscriptionConfirmation"]_vars

\* A subscribe the server has answered with error replies only has
\* failed at the hundredth, for want of a confirmation.
C20_Witness ==
    /\ Idle /\ op = "subscribe" /\ calls = 1
    /\ result = "MissingSubscriptionConfirmation"
    /\ tries = ConfirmationLimit
    /\ response.type = "error"
    /\ nextId = 1 /\ buf = <<>>
    /\ Tracked(args[1])

====
